---- MODULE Spec2Model ----
(***************************************************************************)
(* Model of src/bot.py: a Twitch chat listener that, for every chat        *)
(* message of an authorized user that contains URLs, fetches the stream    *)
(* title (with a lazily refreshed client-credentials token) and appends    *)
(* one spreadsheet row per URL.                                            *)
(*                                                                         *)
(* The process is single threaded.  main() starts up and hands control to  *)
(* the chat transport, which calls process_message once per message.  The  *)
(* transport is named twitch_chat_irc in main() and bound nowhere in       *)
(* bot.py: whether the name is bound is an input of Startup, and the       *)
(* handler runs only where it is.  The                                     *)
(* handler is modelled in steps, one per remote call, so that the clock    *)
(* may advance between the places where the code reads time.time() and so  *)
(* that the outcome of every remote call is an input of the step that      *)
(* makes it.                                                               *)
(***************************************************************************)
EXTENDS Integers, Sequences, FiniteSets, TLC

(***************************************************************************)
(* Bounds of the model.                                                    *)
(***************************************************************************)
\* number of chat messages the transport delivers
MaxEvents == 2
\* number of seconds the clock may advance
MaxTicks == 1
\* epoch second at which the process starts
StartTime == 1000

(***************************************************************************)
(* Program constants.                                                      *)
(***************************************************************************)
\* seconds subtracted from the server-declared expiry (bot.py:62)
Margin == 300
\* TwitchAPI.__init__: self._token_expiry = 0 (bot.py:40)
InitialExpiry == 0

\* Python's None and a Python str as the values of an Optional[str] (the
\* cached token, the title, a local not yet assigned).  None is no string:
\* it differs from Str("None") and from Str("").
None == <<>>

Str(s) == <<s>>

\* user-type and display-name literals of _is_authorized_user (bot.py:159)
ModUserType == "mod"
PrivilegedName == "MLH"

(***************************************************************************)
(* Inputs: chat messages.                                                  *)
(***************************************************************************)
UserTypes == {"mod", "moderator", "viewer"}
DisplayNames == {"MLH", "SomeoneElse"}

\* A message body is a sequence of whitespace-separated words.
UrlWords == {"https://mlh.io", "github.com/MLH"}
Bodies ==
    { <<"hello", "chat">>,
      <<"see", "https://mlh.io">>,
      <<"https://mlh.io", "and", "github.com/MLH">> }

\* tmi-sent-ts: a string, here the sequence of the code points of its
\* characters ("0" is 48, "-" is 45).
\* '1700000000000': 2023-11-14 22:13:20
SendTime2023 == <<49, 55, 48, 48, 48, 48, 48, 48, 48, 48, 48, 48, 48>>

\* '-31536000000999': second -31536000000, 31 August 970, 00:00:00
SendTime970 == <<45, 51, 49, 53, 51, 54, 48, 48, 48, 48, 48, 48, 57, 57, 57>>

\* '253402300800000': the first second of the year 10000
SendTime10000 == <<50, 53, 51, 52, 48, 50, 51, 48, 48, 56, 48, 48, 48, 48, 48>>

\* '12'
SendTimeShort == <<49, 50>>

SendTimes == { SendTime2023, SendTime970, SendTime10000, <<>>, SendTimeShort }

Messages ==
    [ user_type : UserTypes, display_name : DisplayNames,
      message : Bodies, tmi_sent_ts : SendTimes ]

NoMessage ==
    [ user_type |-> "", display_name |-> "", message |-> <<>>,
      tmi_sent_ts |-> <<>> ]

(***************************************************************************)
(* Inputs: responses of the remote services.                               *)
(***************************************************************************)
Tokens == {"tokA", "tokB"}
\* expires_in: a TTL that the margin uses up, and one it leaves a second of
TTLs == {Margin, Margin + 1}

\* Response of the token endpoint: the request fails in transport, or
\* answers a non-2xx status, or answers 2xx with a JSON object that has or
\* lacks each of the two fields (access_token and expires_in are read only
\* where has_token and has_ttl say the field is there).
TokenResponses ==
    { [kind |-> k, has_token |-> FALSE, access_token |-> "",
       has_ttl |-> FALSE, expires_in |-> 0] : k \in {"transport", "http"} }
    \cup
    { [kind |-> "ok", has_token |-> ht,
       access_token |-> (IF ht THEN t ELSE ""),
       has_ttl |-> hl, expires_in |-> (IF hl THEN l ELSE 0)] :
         ht \in BOOLEAN, t \in Tokens, hl \in BOOLEAN, l \in TTLs }

Titles == {"", "Hack Night", "None"}

\* Response of the channel metadata endpoint.  data is the JSON array of
\* the 2xx body: absent, or a sequence of objects with a title.
MetadataResponses ==
    { [kind |-> k, has_data |-> FALSE, data |-> <<>>] :
         k \in {"transport", "http"} }
    \cup
    { [kind |-> "ok", has_data |-> FALSE, data |-> <<>>],
      [kind |-> "ok", has_data |-> TRUE, data |-> <<>>] }
    \cup
    { [kind |-> "ok", has_data |-> TRUE, data |-> <<[title |-> t]>>] :
         t \in Titles }

\* Outcome of .execute() of the spreadsheet append: the service answers,
\* or googleapiclient raises HttpError for a non-2xx answer, or the call
\* fails below HTTP (connection, DNS, timeout, credential refresh), which
\* raises an exception that is not an HttpError.
AppendOutcomes == {"ok", "HttpError", "TransportError"}

(***************************************************************************)
(* Pure functions.                                                         *)
(***************************************************************************)

\* mutant: the display name is compared with != instead of ==
IsAuthorizedUserOtherNames(m) ==
    m.user_type = ModUserType \/ m.display_name # PrivilegedName

\* mutant: both conditions are required instead of either
IsAuthorizedUserBoth(m) ==
    m.user_type = ModUserType /\ m.display_name = PrivilegedName

\* LinkAggregator._is_authorized_user
IsAuthorizedUser(m) ==
    m.user_type = ModUserType \/ m.display_name = PrivilegedName

\* URLExtract.find_urls: the URL-like words of the text, in order
RECURSIVE FindUrls(_)
FindUrls(text) ==
    IF text = <<>> THEN <<>>
    ELSE IF Head(text) \in UrlWords
         THEN <<Head(text)>> \o FindUrls(Tail(text))
         ELSE FindUrls(Tail(text))

\* mutant: the URL test lets every message through
HasUrlsAlways(text) == text = text

\* URLExtract.has_urls
HasUrls(text) == FindUrls(text) # <<>>

\* mutant: only None counts (`is None`), the empty string does not
FalsyNoneOnly(x) == x = None

\* mutant: only the empty string counts, None does not
FalsyEmptyOnly(x) == x = Str("")

\* `not x` of Python for an Optional[str]
Falsy(x) == x = None \/ x = Str("")

\* mutant: the expiry is not looked at
NeedsRefreshTokenOnly(token, expiry, current_time) ==
    Falsy(token)

\* mutant: the expiry is compared with > instead of >=
NeedsRefreshStrict(token, expiry, current_time) ==
    Falsy(token) \/ current_time > expiry

\* _refresh_token_if_needed: the condition under which a token is fetched
NeedsRefresh(token, expiry, current_time) ==
    Falsy(token) \/ current_time >= expiry

\* s[:-3] of a string
DropLast3(s) == SubSeq(s, 1, IF Len(s) > 3 THEN Len(s) - 3 ELSE 0)

\* A Python int is unbounded: it is held as a sign and a magnitude, the
\* sequence of its decimal digits (0..9) without leading zeros; 0 is the
\* empty magnitude.
Zero == [neg |-> FALSE, mag |-> <<>>]

\* The characters int() reads as the decimal digit 0: the first code point
\* of every block of ten decimal digits (category Nd) of Unicode 14, the
\* version of the interpreter's unicodedata.  "0" is 48, ARABIC-INDIC DIGIT
\* ZERO 1632, FULLWIDTH DIGIT ZERO 65296.
DigitZeros ==
    { 48, 1632, 1776, 1984, 2406, 2534, 2662, 2790, 2918, 3046, 3174, 3302,
      3430, 3558, 3664, 3792, 3872, 4160, 4240, 6112, 6160, 6470, 6608, 6784,
      6800, 6992, 7088, 7232, 7248, 42528, 43216, 43264, 43472, 43504, 43600,
      44016, 65296, 66720, 68912, 69734, 69872, 69942, 70096, 70384, 70736,
      70864, 71248, 71360, 71472, 71904, 72016, 72784, 73040, 73120, 92768,
      92864, 93008, 120782, 120792, 120802, 120812, 120822, 123200, 123632,
      125264, 130032 }

IsDigit(c) == \E z \in DigitZeros : c \in z..(z + 9)

DigitValue(c) == c - (CHOOSE z \in DigitZeros : c \in z..(z + 9))

\* the whitespace int() strips from both ends: the ASCII whitespace and the
\* characters above 127 that str.isspace() accepts
IsSpace(c) ==
    \/ c \in 9..13
    \/ c \in {32, 133, 160, 5760, 8232, 8233, 8239, 8287, 12288}
    \/ c \in 8192..8202

RECURSIVE LStrip(_)
LStrip(s) == IF s # <<>> /\ IsSpace(Head(s)) THEN LStrip(Tail(s)) ELSE s

RECURSIVE RStrip(_)
RStrip(s) ==
    IF s # <<>> /\ IsSpace(s[Len(s)])
    THEN RStrip(SubSeq(s, 1, Len(s) - 1))
    ELSE s

RECURSIVE StripZeros(_)
StripZeros(d) ==
    IF d # <<>> /\ Head(d) = 0 THEN StripZeros(Tail(d)) ELSE d

\* the magnitude and sign that int() reads from the digits and underscores
\* after the sign; more than 4300 digits (sys.int_max_str_digits) raise
\* ValueError
IntOfDigits(negative, digs) ==
    IF Len(digs) > 4300 THEN [ok |-> FALSE, value |-> Zero]
    ELSE CHOOSE r \in
            { [ok |-> TRUE, value |-> [neg |-> (negative /\ mag # <<>>),
                                       mag |-> mag]] :
                mag \in { StripZeros([k \in 1..Len(digs) |->
                                         DigitValue(digs[k])]) } } : TRUE

\* what follows the sign: decimal digits of any script, with single
\* underscores between digits
IntOfBody(negative, body) ==
    IF /\ body # <<>>
       /\ \A k \in 1..Len(body) :
             \/ IsDigit(body[k])
             \/ /\ body[k] = 95
                /\ 1 < k /\ k < Len(body)
                /\ IsDigit(body[k - 1]) /\ IsDigit(body[k + 1])
    THEN CHOOSE r \in { IntOfDigits(negative, digs) :
                          digs \in { SelectSeq(body, IsDigit) } } : TRUE
    ELSE [ok |-> FALSE, value |-> Zero]

\* int(s) in base 10: whitespace around, an optional sign ("+" is 43, "-"
\* is 45), then the digits.  ok is FALSE where Python raises ValueError.
\* (The text is bound once at each stage, t and body, by a one-element
\* set.)
ParseInt(s) ==
    CHOOSE r \in
        { IF t # <<>> /\ t[1] \in {43, 45}
          THEN CHOOSE q \in { IntOfBody(t[1] = 45, body) :
                                body \in { Tail(t) } } : TRUE
          ELSE IntOfBody(FALSE, t) :
            t \in { RStrip(LStrip(s)) } } : TRUE

\* mutant: a send-time without seconds counts as second 0
ParseTimestampLenient(ts) ==
    LET p == ParseInt(DropLast3(ts))
    IN  IF p.ok THEN p ELSE [ok |-> TRUE, value |-> Zero]

\* int(message['tmi-sent-ts'][:-3])
ParseTimestamp(ts) == ParseInt(DropLast3(ts))

\* a < b for two magnitudes
RECURSIVE MagLess(_, _)
MagLess(a, b) ==
    IF Len(a) # Len(b) THEN Len(a) < Len(b)
    ELSE IF a = <<>> THEN FALSE
    ELSE IF Head(a) # Head(b) THEN Head(a) < Head(b)
    ELSE MagLess(Tail(a), Tail(b))

\* -lo <= t <= hi, for magnitudes lo and hi
Within(t, lo, hi) ==
    IF t.neg THEN ~MagLess(lo, t.mag) ELSE ~MagLess(hi, t.mag)

\* The seconds datetime.utcfromtimestamp takes: a 64-bit time_t
\* (-2^63 .. 2^63 - 1), of it what gmtime can turn into a year that fits an
\* int (-67768040609740800 .. 67768036191676799), of it the years 1 to 9999
\* (-62135596800 .. 253402300799).
TimeTRange ==
    [lo |-> <<9,2,2,3,3,7,2,0,3,6,8,5,4,7,7,5,8,0,8>>,
     hi |-> <<9,2,2,3,3,7,2,0,3,6,8,5,4,7,7,5,8,0,7>>]

GmtimeRange ==
    [lo |-> <<6,7,7,6,8,0,4,0,6,0,9,7,4,0,8,0,0>>,
     hi |-> <<6,7,7,6,8,0,3,6,1,9,1,6,7,6,7,9,9>>]

DatetimeRange ==
    [lo |-> <<6,2,1,3,5,5,9,6,8,0,0>>,
     hi |-> <<2,5,3,4,0,2,3,0,0,7,9,9>>]

\* the exception datetime.utcfromtimestamp(t) raises, "" when it returns
UtcFromTimestampError(t) ==
    IF ~Within(t, TimeTRange.lo, TimeTRange.hi) THEN "OverflowError"
    ELSE IF ~Within(t, GmtimeRange.lo, GmtimeRange.hi) THEN "OSError"
    ELSE IF ~Within(t, DatetimeRange.lo, DatetimeRange.hi) THEN "ValueError"
    ELSE ""

\* quotient and remainder of a magnitude by the 86400 seconds of a day,
\* digit by digit from (q, r)
RECURSIVE DaysAndSecs(_, _, _)
DaysAndSecs(mag, q, r) ==
    IF mag = <<>> THEN [days |-> q, secs |-> r]
    ELSE LET n == r * 10 + Head(mag)
         IN  DaysAndSecs(Tail(mag), (q * 10) + (n \div 86400), n % 86400)

\* the days since 1970-01-01 and the second of the day of epoch second t,
\* floored for a negative t
DaySplit(t) ==
    CHOOSE r \in
        { IF ~t.neg THEN dm
          ELSE IF dm.secs = 0 THEN [days |-> 0 - dm.days, secs |-> 0]
          ELSE [days |-> 0 - dm.days - 1, secs |-> 86400 - dm.secs] :
            dm \in { DaysAndSecs(t.mag, 0, 0) } } : TRUE

\* the civil date of a day number and the time of a second of the day, in
\* the proleptic Gregorian calendar
CivilFromDays(days, secs) ==
    LET z == days + 719468
        era == z \div 146097
        doe == z - era * 146097
        yoe == (doe - doe \div 1460 + doe \div 36524 - doe \div 146096)
                 \div 365
        doy == doe - (365 * yoe + yoe \div 4 - yoe \div 100)
        mp == (5 * doy + 2) \div 153
        d == doy - (153 * mp + 2) \div 5 + 1
        m == IF mp < 10 THEN mp + 3 ELSE mp - 9
        y == yoe + era * 400 + (IF m <= 2 THEN 1 ELSE 0)
    IN  [exc |-> "", year |-> y, month |-> m, day |-> d,
         hour |-> secs \div 3600, minute |-> (secs % 3600) \div 60,
         second |-> secs % 60]

\* datetime.utcfromtimestamp(t): the exception it raises or, with exc "",
\* the civil date and time of day of epoch second t
CivilFromEpoch(t) ==
    CHOOSE r \in
        { IF e # ""
          THEN [exc |-> e, year |-> 0, month |-> 0, day |-> 0,
                hour |-> 0, minute |-> 0, second |-> 0]
          ELSE CHOOSE c \in { CivilFromDays(ds.days, ds.secs) :
                                ds \in { DaySplit(t) } } : TRUE :
            e \in { UtcFromTimestampError(t) } } : TRUE

Digits == <<"0", "1", "2", "3", "4", "5", "6", "7", "8", "9">>

\* %m, %d, %H, %M, %S: two digits
Pad2(n) == Digits[((n \div 10) % 10) + 1] \o Digits[(n % 10) + 1]

\* %Y of the C library's strftime: the year in decimal, not padded, so a
\* year below 1000 has fewer than four digits
RECURSIVE Decimal(_)
Decimal(n) ==
    IF n < 10 THEN Digits[n + 1]
    ELSE Decimal(n \div 10) \o Digits[(n % 10) + 1]

\* strftime('%Y-%m-%d') of the datetime c
FormatDate(c) ==
    Decimal(c.year) \o "-" \o Pad2(c.month) \o "-" \o Pad2(c.day)

\* strftime('%H:%M:%S') of the datetime c
FormatTime(c) ==
    Pad2(c.hour) \o ":" \o Pad2(c.minute) \o ":" \o Pad2(c.second)

\* write_link: values = [[stream_info.title, date, time_str, link]], for
\* the datetime c of stream_info.timestamp; the title is the Optional[str]
\* the handler holds
RowOf(title, c, link) == <<title, FormatDate(c), FormatTime(c), link>>

(***************************************************************************)
(* State.                                                                  *)
(***************************************************************************)
VARIABLES
    mainPc,        \* main(): "startup", "listening" (inside connection.listen) or "terminated"
    pc,            \* position of process_message: "idle" between messages
    handled,       \* number of messages delivered so far
    message,       \* the message being processed (the last one when idle)
    access_token,  \* TwitchAPI._access_token
    token_expiry,  \* TwitchAPI._token_expiry
    now,           \* time.time(), in whole seconds
    stream_title,  \* local of process_message
    timestamp,     \* local of process_message
    urls,          \* local of process_message
    i,             \* index in urls of the link the for loop is at
    trace,         \* calls made by the current invocation, in order
    logs,          \* log records written by the current invocation
    outcome        \* "none", "running", "returned" or the exception raised

vars ==
    << mainPc, pc, handled, message, access_token, token_expiry, now,
       stream_title, timestamp, urls, i, trace, logs, outcome >>

\* A call made by the handler.  ok is the result of a test or the success
\* of a request, resp the kind of answer of a request, val a value
\* returned or passed (an Optional[str]), token/expiry/at the cached pair
\* and the clock at the call, row the values handed to the spreadsheet.
Call(op) ==
    [ op |-> op, ok |-> TRUE, resp |-> "", val |-> None, token |-> None,
      expiry |-> 0, at |-> 0, row |-> <<>> ]

LogRecord(level, msg, link) == [ level |-> level, msg |-> msg, link |-> link ]

Exceptions ==
    {"RequestException", "KeyError", "IndexError", "ValueError",
     "OverflowError", "OSError", "TransportError", "UndefinedValueError",
     "NameError"}

\* TwitchAPI.__init__ and the state before main() runs
Init ==
    /\ mainPc = "startup"
    /\ pc = "idle"
    /\ handled = 0
    /\ message = NoMessage
    /\ access_token = None
    /\ token_expiry = InitialExpiry
    /\ now = StartTime
    /\ stream_title = None
    /\ timestamp = Zero
    /\ urls = <<>>
    /\ i = 0
    /\ trace = <<>>
    /\ logs = <<>>
    /\ outcome = "none"

ResetLocals ==
    /\ stream_title' = None
    /\ timestamp' = Zero
    /\ urls' = <<>>
    /\ i' = 0

\* process_message returns: the transport waits for the next message
Return(tr, lg) ==
    /\ pc' = "idle"
    /\ outcome' = "returned"
    /\ trace' = tr
    /\ logs' = lg
    /\ ResetLocals
    /\ UNCHANGED mainPc

\* mutant: the exception is logged and the listener goes on
RaiseAndGoOn(exc, tr, lg) ==
    /\ pc' = "idle"
    /\ outcome' = exc
    /\ trace' = tr
    /\ logs' = Append(lg, LogRecord("critical", "Fatal error", ""))
    /\ ResetLocals
    /\ UNCHANGED mainPc

\* an exception leaves process_message: it passes through
\* connection.listen into main(), which logs it and raises it again
Raise(exc, tr, lg) ==
    /\ pc' = "idle"
    /\ outcome' = exc
    /\ trace' = tr
    /\ logs' = Append(lg, LogRecord("critical", "Fatal error", ""))
    /\ ResetLocals
    /\ mainPc' = "terminated"

\* main(), lines 163-184.  config_ok: every key config() is asked for is
\* set (a missing key raises UndefinedValueError at lines 164-175).
\* transport_bound: the name twitch_chat_irc is bound in the globals of the
\* module when line 179 runs.  bot.py never imports or assigns that name,
\* so run on its own the program has transport_bound FALSE and line 179
\* raises NameError; connection.listen is reached only when the module has
\* been loaded by a program that binds the name (bot.twitch_chat_irc = ...)
\* before it calls main().  Either exception is logged as critical and
\* raised again (lines 182-184).
Startup(config_ok, transport_bound) ==
    /\ mainPc = "startup"
    /\ IF config_ok /\ transport_bound
       THEN mainPc' = "listening" /\ UNCHANGED << logs, outcome >>
       ELSE /\ mainPc' = "terminated"
            /\ outcome' = IF ~config_ok THEN "UndefinedValueError"
                          ELSE "NameError"
            /\ logs' = Append(logs, LogRecord("critical", "Fatal error", ""))
    /\ UNCHANGED << pc, handled, message, access_token, token_expiry, now,
                    stream_title, timestamp, urls, i, trace >>

\* the clock advances
Tick ==
    /\ mainPc = "listening"
    /\ now < StartTime + MaxTicks
    /\ now' = now + 1
    /\ UNCHANGED << mainPc, pc, handled, message, access_token, token_expiry,
                    stream_title, timestamp, urls, i, trace, logs, outcome >>

\* process_message, lines 129-136: the transport delivers message m; the
\* handler applies the two filters and, past both, calls get_stream_info
Deliver(m) ==
    /\ mainPc = "listening"
    /\ pc = "idle"
    /\ handled < MaxEvents
    /\ handled' = handled + 1
    /\ message' = m
    /\ LET auth == IsAuthorizedUser(m)
           has == HasUrls(m.message)
           t1 == << [Call("is_authorized_user") EXCEPT !.ok = auth] >>
           t2 == Append(t1, [Call("has_urls") EXCEPT !.ok = has])
       IN  IF ~auth THEN Return(t1, <<>>)
           ELSE IF ~has THEN Return(t2, <<>>)
           ELSE /\ pc' = "refresh_check"
                /\ outcome' = "running"
                /\ trace' = Append(t2, Call("get_stream_info"))
                /\ logs' = <<>>
                /\ ResetLocals
                /\ UNCHANGED mainPc
    /\ UNCHANGED << access_token, token_expiry, now >>

\* _refresh_token_if_needed, lines 44-45
RefreshTokenIfNeeded ==
    /\ pc = "refresh_check"
    /\ LET current_time == now
           needs == NeedsRefresh(access_token, token_expiry, current_time)
       IN  /\ trace' = Append(trace,
                  [Call("refresh_token_if_needed") EXCEPT
                      !.ok = needs, !.token = access_token,
                      !.expiry = token_expiry, !.at = current_time])
           /\ pc' = IF needs THEN "token_post" ELSE "metadata_get"
    /\ UNCHANGED << mainPc, handled, message, access_token, token_expiry, now,
                    stream_title, timestamp, urls, i, logs, outcome >>

\* mutant: a failed request is logged and not raised again
TokenRequestResultSwallowed(r, token, expiry, t) ==
    IF r.kind # "ok"
    THEN [exc |-> "", logged |-> TRUE, token |-> token, expiry |-> expiry]
    ELSE IF ~r.has_token
    THEN [exc |-> "KeyError", logged |-> FALSE,
          token |-> token, expiry |-> expiry]
    ELSE IF ~r.has_ttl
    THEN [exc |-> "KeyError", logged |-> FALSE,
          token |-> Str(r.access_token), expiry |-> expiry]
    ELSE [exc |-> "", logged |-> FALSE, token |-> Str(r.access_token),
          expiry |-> t + r.expires_in - Margin]

\* mutant: a failed request drops the token that was held
TokenRequestResultClears(r, token, expiry, t) ==
    IF r.kind # "ok"
    THEN [exc |-> "RequestException", logged |-> TRUE,
          token |-> None, expiry |-> expiry]
    ELSE IF ~r.has_token
    THEN [exc |-> "KeyError", logged |-> FALSE,
          token |-> token, expiry |-> expiry]
    ELSE IF ~r.has_ttl
    THEN [exc |-> "KeyError", logged |-> FALSE,
          token |-> Str(r.access_token), expiry |-> expiry]
    ELSE [exc |-> "", logged |-> FALSE, token |-> Str(r.access_token),
          expiry |-> t + r.expires_in - Margin]

\* _get_new_token, lines 50-65: what the call ends in for response r when
\* the cache holds (token, expiry) and the clock reads t at line 62.  exc
\* is the exception that leaves it ("" when it returns), token and expiry
\* the cached pair it leaves.
TokenRequestResult(r, token, expiry, t) ==
    IF r.kind # "ok"
    THEN \* requests.post or raise_for_status raises: logged, raised again
         [exc |-> "RequestException", logged |-> TRUE,
          token |-> token, expiry |-> expiry]
    ELSE IF ~r.has_token
    THEN \* data['access_token'] raises KeyError
         [exc |-> "KeyError", logged |-> FALSE,
          token |-> token, expiry |-> expiry]
    ELSE IF ~r.has_ttl
    THEN \* line 61 has assigned; data['expires_in'] raises KeyError
         [exc |-> "KeyError", logged |-> FALSE,
          token |-> Str(r.access_token), expiry |-> expiry]
    ELSE [exc |-> "", logged |-> FALSE, token |-> Str(r.access_token),
          expiry |-> t + r.expires_in - Margin]

\* _get_new_token: one POST to the token endpoint, answered by r
GetNewToken(r) ==
    /\ pc = "token_post"
    /\ LET res == TokenRequestResult(r, access_token, token_expiry, now)
           tr == Append(trace,
                  [Call("token_post") EXCEPT
                      !.ok = (r.kind = "ok"), !.resp = r.kind, !.at = now])
           lg == IF res.logged
                 THEN Append(logs, LogRecord("error",
                                      "Failed to get Twitch token", ""))
                 ELSE logs
       IN  /\ access_token' = res.token
           /\ token_expiry' = res.expiry
           /\ IF res.exc # "" THEN Raise(res.exc, tr, lg)
              ELSE /\ pc' = "metadata_get"
                   /\ trace' = tr
                   /\ logs' = lg
                   /\ UNCHANGED << mainPc, stream_title, timestamp, urls, i,
                                   outcome >>
    /\ UNCHANGED << handled, message, now >>

\* the label under which a metadata response is recorded
MetadataKind(r) ==
    IF r.kind # "ok" THEN r.kind
    ELSE IF ~r.has_data THEN "no_data"
    ELSE IF r.data = <<>> THEN "empty_data"
    ELSE "title"

\* get_stream_info, lines 70-82: what the call ends in for response r.
\* exc is the exception that leaves it ("" when it returns), value the
\* value returned.
StreamInfoResult(r) ==
    IF r.kind # "ok"
    THEN \* RequestException: caught, logged, None is returned
         [exc |-> "", value |-> None, logged |-> TRUE]
    ELSE IF ~r.has_data
    THEN \* response.json()['data'] raises KeyError
         [exc |-> "KeyError", value |-> None, logged |-> FALSE]
    ELSE IF r.data = <<>>
    THEN \* ['data'][0] raises IndexError
         [exc |-> "IndexError", value |-> None, logged |-> FALSE]
    ELSE [exc |-> "", value |-> Str(r.data[1].title), logged |-> FALSE]

\* get_stream_info from line 70 on, and process_message, lines 136-139:
\* one GET of the channel metadata, answered by r, and the test of the
\* title that comes back
GetStreamInfo(r) ==
    /\ pc = "metadata_get"
    /\ LET res == StreamInfoResult(r)
           tr == Append(trace,
                  [Call("metadata_get") EXCEPT
                      !.ok = (r.kind = "ok"), !.resp = MetadataKind(r),
                      !.token = access_token, !.expiry = token_expiry,
                      !.at = now])
           back == Append(tr, [Call("stream_title") EXCEPT !.val = res.value])
           lg == IF res.logged
                 THEN Append(logs, LogRecord("error",
                                      "Failed to get stream info", ""))
                 ELSE logs
       IN  IF res.exc # "" THEN Raise(res.exc, tr, lg)
           ELSE IF Falsy(res.value)
           THEN Return(back, Append(lg, LogRecord("error",
                                           "Failed to get stream title", "")))
           ELSE /\ stream_title' = res.value
                /\ pc' = "parse_ts"
                /\ trace' = back
                /\ logs' = lg
                /\ UNCHANGED << mainPc, timestamp, urls, i, outcome >>
    /\ UNCHANGED << handled, message, access_token, token_expiry, now >>

\* process_message, lines 141-148
ParseSendTime ==
    /\ pc = "parse_ts"
    /\ LET p == ParseTimestamp(message.tmi_sent_ts)
           tr == Append(trace, [Call("parse_timestamp") EXCEPT !.ok = p.ok])
           found == FindUrls(message.message)
       IN  IF ~p.ok THEN Raise("ValueError", tr, logs)
           ELSE IF found = <<>> THEN Return(tr, logs)
           ELSE /\ timestamp' = p.value
                /\ urls' = found
                /\ i' = 1
                /\ pc' = "write_links"
                /\ trace' = tr
                /\ UNCHANGED << mainPc, stream_title, logs, outcome >>
    /\ UNCHANGED << handled, message, access_token, token_expiry, now >>

\* one turn of the for loop of process_message, lines 150-154, with the
\* write_link call it makes: the append, when the call gets to it, ends
\* as o
WriteLink(o) ==
    /\ pc = "write_links"
    /\ \E when \in { CivilFromEpoch(timestamp) } :
       LET link == urls[i]
           tr == IF when.exc # ""
                 THEN Append(trace,
                        [Call("write_link") EXCEPT
                            !.ok = FALSE, !.resp = when.exc,
                            !.val = Str(link)])
                 ELSE Append(trace,
                        [Call("write_link") EXCEPT
                            !.ok = (o = "ok"), !.resp = o, !.val = Str(link),
                            !.row = RowOf(stream_title, when, link)])
           lg == IF o = "ok"
                 THEN logs \o << LogRecord("info",
                                    "Successfully updated cells", ""),
                                 LogRecord("info", "Successfully wrote", link) >>
                 ELSE logs \o << LogRecord("error",
                                    "Failed to write to sheets", ""),
                                 LogRecord("error", "Failed to write", link) >>
       IN  IF when.exc # ""
           THEN \* line 97 raises before any request is made; it is not an
                \* HttpError: leaves write_link and the loop
                Raise(when.exc, tr, logs)
           ELSE IF o = "TransportError"
           THEN \* not an HttpError: leaves write_link and the loop
                Raise("TransportError", tr, logs)
           ELSE IF i = Len(urls) THEN Return(tr, lg)
           ELSE /\ i' = i + 1
                /\ trace' = tr
                /\ logs' = lg
                /\ UNCHANGED << mainPc, pc, stream_title, timestamp, urls,
                                outcome >>
    /\ UNCHANGED << handled, message, access_token, token_expiry, now >>

Next ==
    \/ \E config_ok \in BOOLEAN, transport_bound \in BOOLEAN :
          Startup(config_ok, transport_bound)
    \/ Tick
    \/ \E m \in Messages : Deliver(m)
    \/ RefreshTokenIfNeeded
    \/ \E r \in TokenResponses : GetNewToken(r)
    \/ \E r \in MetadataResponses : GetStreamInfo(r)
    \/ ParseSendTime
    \/ \E o \in AppendOutcomes : WriteLink(o)

Spec == Init /\ [][Next]_vars

TypeOK ==
    /\ mainPc \in {"startup", "listening", "terminated"}
    /\ pc \in {"idle", "refresh_check", "token_post", "metadata_get",
               "parse_ts", "write_links"}
    /\ handled \in 0..MaxEvents
    /\ outcome \in {"none", "running", "returned"} \cup Exceptions
    /\ access_token = None \/ \E t \in Tokens : access_token = Str(t)
    /\ stream_title = None \/ \E t \in Titles : stream_title = Str(t)
    /\ timestamp.neg \in BOOLEAN
    /\ \A k \in 1..Len(timestamp.mag) : timestamp.mag[k] \in 0..9

(***************************************************************************)
(* Properties.                                                             *)
(***************************************************************************)

\* the positions of the calls of operation op in the current invocation
CallsOf(op) == { k \in 1..Len(trace) : trace[k].op = op }

NumCalls(op) == Cardinality(CallsOf(op))

\* the current invocation has ended
Ended == handled > 0 /\ outcome # "running"

\* the positions of the write_link calls that got to the append request
AppendCalls ==
    { k \in CallsOf("write_link") : trace[k].resp \in AppendOutcomes }

\* the append requests of the current invocation, in order
WriteCalls ==
    SelectSeq(trace,
              LAMBDA c : c.op = "write_link" /\ c.resp \in AppendOutcomes)

\* the tokens and the titles of the responses, as Python values
TokenValues == { Str(t) : t \in Tokens }

TitleValues == { Str(t) : t \in Titles }

\* the URL-like words of the current message, in order, stated without
\* the detector
BodyHasUrl == \E k \in 1..Len(message.message) : message.message[k] \in UrlWords

\* C1: once _refresh_token_if_needed has run and its request, if any, has
\* been answered, the invocation has made no token-endpoint request if at
\* the check a token was held and the clock was strictly before the stored
\* expiry, and exactly one request otherwise.
C1_RefreshOnlyWhenNotValid ==
    \A k \in CallsOf("refresh_token_if_needed") :
        pc # "token_post" =>
            LET c == trace[k]
                held == c.token # None /\ c.token # Str("")
            IN  IF held /\ c.at < c.expiry
                THEN NumCalls("token_post") = 0
                ELSE NumCalls("token_post") = 1

\* C1 witness: a second message finds the token of the first still valid
\* and goes on to the metadata request without a token request.
C1_Witness ==
    /\ pc = "metadata_get"
    /\ \E k \in CallsOf("refresh_token_if_needed") :
          /\ trace[k].token \in TokenValues
          /\ trace[k].at < trace[k].expiry
    /\ NumCalls("token_post") = 0

\* C2: when the token request of an invocation fails (transport error or
\* non-2xx status), get_stream_info returns None and process_message
\* returns without a write, the process still listening.
C2_RefreshFailureGivesUnavailable ==
    (\E k \in CallsOf("token_post") : ~trace[k].ok) =>
        /\ outcome = "returned"
        /\ mainPc = "listening"
        /\ \E j \in CallsOf("stream_title") : trace[j].val = None
        /\ NumCalls("write_link") = 0

\* C3: a metadata request that ends in a transport error, a non-2xx status
\* or a 2xx body whose data array is missing or empty makes get_stream_info
\* return None, with no exception.
C3_BadMetadataGivesUnavailable ==
    \A k \in CallsOf("metadata_get") :
        trace[k].resp \in {"transport", "http", "no_data", "empty_data"} =>
            /\ outcome = "returned"
            /\ mainPc = "listening"
            /\ \E j \in CallsOf("stream_title") : trace[j].val = None

\* C4: a message whose user-type is not "mod" and whose display name is not
\* "MLH" causes no call of get_stream_info, no token check or request, no
\* metadata request and no append, and leaves the token cache as it was
\* constructed or as earlier messages left it.
C4_UnauthorizedDoesNothing ==
    (handled > 0 /\ message.user_type # "mod" /\ message.display_name # "MLH")
        => /\ \A k \in 1..Len(trace) :
                trace[k].op \notin {"has_urls", "get_stream_info",
                    "refresh_token_if_needed", "token_post", "metadata_get",
                    "stream_title", "parse_timestamp", "write_link"}
           /\ logs = <<>>
           /\ outcome = "returned"

\* C4 witness: a viewer named SomeoneElse has sent a message with two URLs
\* and the handler has returned.
C4_Witness ==
    /\ Ended
    /\ message.user_type = "viewer"
    /\ message.display_name = "SomeoneElse"
    /\ message.message = <<"https://mlh.io", "and", "github.com/MLH">>
    /\ Len(trace) = 1

\* C5 as stated: a message passes the authorization filter iff its
\* user-type is "moderator" or its display name is "MLH".
C5_PassesIffModeratorOrMLH ==
    handled > 0 =>
        (trace[1].ok <=>
            (message.user_type = "moderator" \/ message.display_name = "MLH"))

\* C5 amended: a message passes the authorization filter iff its user-type
\* is "mod" or its display name is "MLH".
C5_PassesIffModOrMLH ==
    handled > 0 =>
        /\ trace[1].op = "is_authorized_user"
        /\ trace[1].ok <=>
              (message.user_type = "mod" \/ message.display_name = "MLH")
        /\ (Len(trace) > 1 <=> trace[1].ok)

\* C5 witness: a message of a "mod" with another display name and a URL
\* has passed the filter and the handler has gone on to get_stream_info.
C5_Witness ==
    /\ handled > 0
    /\ message.display_name = "SomeoneElse"
    /\ message.user_type = "mod"
    /\ trace[1].ok
    /\ NumCalls("get_stream_info") = 1

\* C6: an invocation calls get_stream_info at most once and sends at most
\* one metadata request, and does either only for a message that passes
\* the filter and whose body contains a URL.
C6_TitleLookupOnceAndOnlyIfUrl ==
    /\ NumCalls("get_stream_info") <= 1
    /\ NumCalls("metadata_get") <= 1
    /\ (NumCalls("get_stream_info") + NumCalls("metadata_get") > 0) =>
          /\ message.user_type = "mod" \/ message.display_name = "MLH"
          /\ BodyHasUrl

\* C6 witness: a message with two URLs has been processed to the end, both
\* links written, with one call of get_stream_info.
C6_Witness ==
    /\ Ended
    /\ NumCalls("get_stream_info") = 1
    /\ NumCalls("metadata_get") = 1
    /\ NumCalls("write_link") = 2

\* C7: when get_stream_info returns None, the invocation makes no append.
C7_UnavailableTitleNoAppend ==
    (\E k \in CallsOf("stream_title") : trace[k].val = None) =>
        /\ NumCalls("write_link") = 0
        /\ NumCalls("parse_timestamp") = 0
        /\ pc = "idle"

\* C7 witness: the metadata request of an authorized message with two URLs
\* has failed and the handler has returned.
C7_Witness ==
    /\ Ended
    /\ outcome = "returned"
    /\ Len(FindUrls(message.message)) = 2
    /\ \E k \in CallsOf("stream_title") : trace[k].val = None
    /\ \E k \in CallsOf("metadata_get") : ~trace[k].ok

\* C8: an invocation that got a title, parsed the send-time and found its
\* second to be a date that datetime can hold ends with
\* exactly one append per URL of the message, in the order of the URLs,
\* each row made of the title, the date and time of the send-time and the
\* link.
C8_OneAppendPerUrl ==
    ( /\ Ended
      /\ \E k \in CallsOf("parse_timestamp") : trace[k].ok
      /\ CallsOf("write_link") = AppendCalls ) =>
        LET found == FindUrls(message.message)
        IN  /\ Len(WriteCalls) = Len(found)
            /\ \A n \in 1..Len(WriteCalls) :
                  /\ WriteCalls[n].row[4] = found[n]
                  /\ WriteCalls[n].row[1] = WriteCalls[1].row[1]
                  /\ WriteCalls[n].row[2] = WriteCalls[1].row[2]
                  /\ WriteCalls[n].row[3] = WriteCalls[1].row[3]

\* C9: when an append of an invocation has failed, the invocation ends
\* with every URL of the message attempted, and every append that
\* succeeded is logged as written.
C9_FailedAppendDoesNotAbort ==
    (Ended /\ \E k \in AppendCalls : ~trace[k].ok) =>
        /\ Len(WriteCalls) = Len(FindUrls(message.message))
        /\ \A n \in 1..Len(WriteCalls) :
              WriteCalls[n].ok =>
                  \E l \in 1..Len(logs) :
                      logs[l] = LogRecord("info", "Successfully wrote",
                                          WriteCalls[n].row[4])

\* C10: when the send-time of a message does not parse, the invocation
\* returns without an append and the process goes on listening.
C10_MalformedSendTimeIsRecoverable ==
    (\E k \in CallsOf("parse_timestamp") : ~trace[k].ok) =>
        /\ outcome = "returned"
        /\ mainPc = "listening"
        /\ NumCalls("write_link") = 0

\* C11: a token request that fails (transport error or non-2xx status) is
\* the only token request of its invocation, is logged, and leaves
\* get_stream_info as an exception: no metadata request follows it.
C11_FailedRefreshOnceAndRaised ==
    \A j \in CallsOf("token_post") :
        ~trace[j].ok =>
            /\ NumCalls("token_post") = 1
            /\ j = Len(trace)
            /\ outcome = "RequestException"
            /\ NumCalls("metadata_get") = 0
            /\ \E l \in 1..Len(logs) :
                  logs[l] = LogRecord("error", "Failed to get Twitch token", "")

\* C11 witness: the token endpoint has answered a non-2xx status and the
\* exception has left the handler.
C11_Witness ==
    /\ Ended
    /\ outcome = "RequestException"
    /\ \E j \in CallsOf("token_post") : trace[j].resp = "http"

\* C12: every row handed to the spreadsheet carries the UTC date and time
\* of the send-time cut to whole seconds, the date as YYYY-MM-DD (ten
\* characters, a four-digit year) and the time as HH:MM:SS: 2023-11-14 and
\* 22:13:20 for 1700000000000, and 0970-08-31 and 00:00:00 for
\* -31536000000999.
C12_RowDateTime ==
    \A k \in AppendCalls :
        /\ Len(trace[k].row) = 4
        /\ Len(message.tmi_sent_ts) > 3
        /\ Len(trace[k].row[2]) = 10
        /\ Len(trace[k].row[3]) = 8
        /\ message.tmi_sent_ts = SendTime2023 =>
               trace[k].row[2] = "2023-11-14" /\ trace[k].row[3] = "22:13:20"
        /\ message.tmi_sent_ts = SendTime970 =>
               trace[k].row[2] = "0970-08-31" /\ trace[k].row[3] = "00:00:00"

\* C13: in every state the cached pair is the pair of __init__, or a token
\* of a response together with the expiry computed from a TTL of a
\* response at some time since the start.
C13_PairNeverPartlyReplaced ==
    \/ access_token = None /\ token_expiry = InitialExpiry
    \/ /\ access_token \in TokenValues
       /\ \E t \in StartTime..now : \E l \in TTLs :
             token_expiry = t + l - Margin

\* C14 as stated: every metadata request carries a token that is valid by
\* the rule of the cache when the request is sent: a token is held and the
\* clock is strictly before the stored expiry.
C14_RequestTokenValidWhenSent ==
    \A k \in CallsOf("metadata_get") :
        /\ trace[k].token # None
        /\ trace[k].token # Str("")
        /\ trace[k].at < trace[k].expiry

\* C14 amended: every metadata request carries the cached token, and
\* before it, in the same invocation, either the check found that pair
\* valid by the rule of the cache and no token request was made, or one
\* token request succeeded and stored the pair that is sent.
C14_RequestTokenCheckedOrFresh ==
    \A k \in CallsOf("metadata_get") :
        /\ trace[k].token = access_token
        /\ trace[k].expiry = token_expiry
        /\ \E c \in CallsOf("refresh_token_if_needed") :
              /\ c < k
              /\ \/ /\ NumCalls("token_post") = 0
                    /\ trace[c].token \in TokenValues
                    /\ trace[c].at < trace[c].expiry
                    /\ trace[k].token = trace[c].token
                    /\ trace[k].expiry = trace[c].expiry
                 \/ /\ NumCalls("token_post") = 1
                    /\ \E j \in CallsOf("token_post") :
                          /\ c < j /\ j < k
                          /\ trace[j].ok
                          /\ trace[k].token \in TokenValues
                          /\ \E l \in TTLs :
                                trace[k].expiry = trace[j].at + l - Margin

\* C14 witness: a token fetched with a TTL of 300 seconds is sent with the
\* metadata request of the same invocation, at or after its stored expiry.
C14_Witness ==
    \E k \in CallsOf("metadata_get") :
        /\ trace[k].token \in TokenValues
        /\ trace[k].at >= trace[k].expiry
        /\ \E j \in CallsOf("token_post") :
              trace[j].ok /\ trace[k].expiry = trace[j].at

\* C15: an exception that leaves process_message, or a failure of startup,
\* is logged as critical by main and ends the process: once terminated the
\* process takes no further step, so no later message is handled.
C15_EscapedExceptionIsFatal ==
    /\ outcome \in Exceptions =>
          /\ mainPc = "terminated"
          /\ pc = "idle"
    /\ mainPc = "terminated" =>
          /\ outcome \in Exceptions
          /\ handled = 0 <=> outcome \in {"UndefinedValueError", "NameError"}
          /\ logs # <<>>
          /\ logs[Len(logs)] = LogRecord("critical", "Fatal error", "")
          /\ ~ENABLED Next

\* C15 witness: the first of the messages has raised ValueError and the
\* process has terminated with a message still to come.
C15_Witness ==
    /\ mainPc = "terminated"
    /\ outcome = "ValueError"
    /\ handled < MaxEvents

\* C16: when the metadata response is a success whose title is the empty
\* string, process_message logs the failure to get the title and returns
\* without parsing the send-time and without an append, as it does for
\* None.
C16_EmptyTitleIsUnavailable ==
    \A k \in CallsOf("stream_title") :
        trace[k].val = Str("") =>
            /\ trace[k - 1].op = "metadata_get"
            /\ trace[k - 1].ok
            /\ k = Len(trace)
            /\ NumCalls("write_link") = 0
            /\ outcome = "returned"
            /\ mainPc = "listening"
            /\ logs = << LogRecord("error", "Failed to get stream title", "") >>

\* C16 witness: a message with two URLs has met an empty title and the
\* handler has returned.
C16_Witness ==
    /\ Ended
    /\ Len(FindUrls(message.message)) = 2
    /\ \E k \in CallsOf("stream_title") : trace[k].val = Str("")

(***************************************************************************)
(* The TwitchAPI object on its own: a caller that calls get_stream_info    *)
(* again and again and survives the exceptions it raises.  Under main()    *)
(* the first exception ends the process, so what a TwitchAPI object does   *)
(* after a failed call shows only here.  trace and logs run over all the   *)
(* calls; mainPc, message and the locals of process_message stay as Init   *)
(* leaves them.                                                            *)
(***************************************************************************)

\* the caller calls get_stream_info (line 67)
ApiCall ==
    /\ pc = "idle"
    /\ handled < MaxEvents
    /\ handled' = handled + 1
    /\ pc' = "refresh_check"
    /\ outcome' = "running"
    /\ trace' = Append(trace, Call("get_stream_info"))
    /\ UNCHANGED << mainPc, message, access_token, token_expiry, now,
                    stream_title, timestamp, urls, i, logs >>

\* _get_new_token called through get_stream_info, line 69: its exception
\* leaves get_stream_info and reaches the caller
ApiGetNewToken(r) ==
    /\ pc = "token_post"
    /\ LET res == TokenRequestResult(r, access_token, token_expiry, now)
       IN  /\ access_token' = res.token
           /\ token_expiry' = res.expiry
           /\ trace' = Append(trace,
                  [Call("token_post") EXCEPT
                      !.ok = (r.kind = "ok"), !.resp = r.kind, !.at = now])
           /\ logs' = IF res.logged
                      THEN Append(logs, LogRecord("error",
                                           "Failed to get Twitch token", ""))
                      ELSE logs
           /\ pc' = IF res.exc # "" THEN "idle" ELSE "metadata_get"
           /\ outcome' = IF res.exc # "" THEN res.exc ELSE outcome
    /\ UNCHANGED << mainPc, handled, message, now, stream_title, timestamp,
                    urls, i >>

\* get_stream_info, lines 70-82: the value or the exception goes to the
\* caller
ApiGetStreamInfo(r) ==
    /\ pc = "metadata_get"
    /\ LET res == StreamInfoResult(r)
           tr == Append(trace,
                  [Call("metadata_get") EXCEPT
                      !.ok = (r.kind = "ok"), !.resp = MetadataKind(r),
                      !.token = access_token, !.expiry = token_expiry,
                      !.at = now])
       IN  /\ trace' = IF res.exc # "" THEN tr
                       ELSE Append(tr, [Call("stream_title") EXCEPT
                                           !.val = res.value])
           /\ logs' = IF res.logged
                      THEN Append(logs, LogRecord("error",
                                           "Failed to get stream info", ""))
                      ELSE logs
           /\ outcome' = IF res.exc # "" THEN res.exc ELSE "returned"
    /\ pc' = "idle"
    /\ UNCHANGED << mainPc, handled, message, access_token, token_expiry, now,
                    stream_title, timestamp, urls, i >>

\* the clock advances
ApiTick ==
    /\ now < StartTime + MaxTicks
    /\ now' = now + 1
    /\ UNCHANGED << mainPc, pc, handled, message, access_token, token_expiry,
                    stream_title, timestamp, urls, i, trace, logs, outcome >>

ApiNext ==
    \/ ApiCall
    \/ ApiTick
    \/ RefreshTokenIfNeeded
    \/ \E r \in TokenResponses : ApiGetNewToken(r)
    \/ \E r \in MetadataResponses : ApiGetStreamInfo(r)

ApiSpec == Init /\ [][ApiNext]_vars

\* the checks of _refresh_token_if_needed recorded after position j
ChecksAfter(j) == { k \in CallsOf("refresh_token_if_needed") : k > j }

\* C17: a token request that fails (transport error or non-2xx status)
\* leaves the cached pair as the check before it found it: the pair is
\* still that one while no later token request is made, and the check of
\* the next call of get_stream_info finds the same pair, decides to
\* refresh and is followed by a new token request; when that request
\* succeeds the metadata request is sent with a token of the response.
C17_FailedRefreshNotSticky ==
    \A j \in CallsOf("token_post") :
        ~trace[j].ok =>
            LET c == trace[j - 1]
                later == ChecksAfter(j)
            IN  /\ c.op = "refresh_token_if_needed"
                /\ (\A p \in CallsOf("token_post") : p <= j) =>
                      access_token = c.token /\ token_expiry = c.expiry
                /\ \A k \in later :
                      (\A k2 \in later : k <= k2) =>
                          /\ trace[k].token = c.token
                          /\ trace[k].expiry = c.expiry
                          /\ trace[k].ok
                          /\ IF k = Len(trace) THEN pc = "token_post"
                             ELSE trace[k + 1].op = "token_post"
                          /\ (k + 2 <= Len(trace)
                                /\ trace[k + 2].op = "metadata_get") =>
                                /\ trace[k + 1].ok
                                /\ trace[k + 2].token \in TokenValues
                                /\ trace[k + 2].expiry >= trace[k + 1].at

\* C17 witness: the token request of one call has failed, and the next
\* call has found the pair as it was, fetched a token and got the title.
C17_Witness ==
    \E j \in CallsOf("token_post") :
        /\ ~trace[j].ok
        /\ Len(trace) >= j + 5
        /\ trace[j + 2].op = "refresh_token_if_needed"
        /\ trace[j + 2].token = trace[j - 1].token
        /\ trace[j + 3].op = "token_post" /\ trace[j + 3].ok
        /\ trace[j + 4].op = "metadata_get"
        /\ trace[j + 5].op = "stream_title" /\ trace[j + 5].val = Str("Hack Night")

\* C18: the send-time is parsed only after get_stream_info has returned a
\* title, and every append comes after that title and after a successful
\* parse.  An authorized message with a URL whose send-time has fewer than
\* 4 characters never causes an append, yet it causes the call of
\* get_stream_info and, unless the token step raised, one metadata
\* request.
C18_ParseAfterTitleAppendAfterParse ==
    /\ \A k \in CallsOf("parse_timestamp") :
          /\ trace[k - 1].op = "stream_title"
          /\ trace[k - 1].val \in TitleValues \ {Str("")}
          /\ trace[k - 2].op = "metadata_get"
    /\ \A k \in AppendCalls :
          \E p \in CallsOf("parse_timestamp") :
              /\ p < k
              /\ trace[p].ok
              /\ \E t \in CallsOf("stream_title") :
                    t < p /\ trace[k].row[1] = trace[t].val
    /\ ( /\ handled > 0
         /\ message.user_type = "mod" \/ message.display_name = "MLH"
         /\ BodyHasUrl
         /\ Len(message.tmi_sent_ts) < 4 ) =>
          /\ NumCalls("write_link") = 0
          /\ NumCalls("get_stream_info") = 1
          /\ Ended =>
                \/ NumCalls("metadata_get") = 1
                \/ /\ NumCalls("metadata_get") = 0
                   /\ NumCalls("token_post") = 1
                   /\ outcome \in {"RequestException", "KeyError"}
          /\ \A k \in CallsOf("parse_timestamp") : ~trace[k].ok

\* C18 witness: a message with the send-time "12" has caused a token
\* request and a metadata request that returned a title, and the parse has
\* then failed.
C18_Witness ==
    /\ Ended
    /\ message.tmi_sent_ts = SendTimeShort
    /\ NumCalls("token_post") = 1
    /\ NumCalls("metadata_get") = 1
    /\ \E k \in CallsOf("parse_timestamp") : ~trace[k].ok /\ k = Len(trace)

====
